---- MODULE Spec2Model ----
(***************************************************************************)
(* Model of the oclapi base models (oclapi/models.py) and of the           *)
(* Organization serializers (orgs/serializers.py).                         *)
(*                                                                         *)
(* A model instance is a record held in memory (objs, vers); a table is a  *)
(* function from primary key to the row last written by save() (db, vdb).  *)
(* The framework semantics the code relies on are modelled as Django 1.x   *)
(* (django-nonrel) and Python's re define them:                            *)
(*   - Model.save() inserts when pk is None and updates otherwise; it sets *)
(*     auto_now / auto_now_add fields; a unique=True column makes the      *)
(*     storage layer reject a second row with the same value;              *)
(*   - Model.__eq__ compares class and primary key value;                  *)
(*   - RegexValidator calls regex.search(value); '$' matches at the end of *)
(*     the string and just before a newline that ends the string.          *)
(***************************************************************************)
EXTENDS Integers, Sequences, FiniteSets, TLC

VARIABLES
  now,      \* the wall clock read by auto_now / auto_now_add
  db,       \* Organization table: pk -> row
  objs,     \* Organization instances in memory: slot -> instance
  ser,      \* one serializer per create request: slot -> its state
  last,     \* trail of the most recent model-method calls (newest last)
  vdb,      \* version table: pk -> row
  vers,     \* version instances in memory: slot -> instance
  cleaned,  \* outcome of the most recent clean() call
  latest,   \* outcome of the most recent get_latest_version_of() call
  users,    \* User table: user -> number of saves (0: not stored)
  tokens,   \* Token table: sequence of rows (one per Token.objects.create)
  input,    \* the mnemonic string handed to the validator
  verdict   \* what the validator did with it

vars == <<now, db, objs, ser, last, vdb, vers, cleaned, latest, users, tokens,
          input, verdict>>

orgVars  == <<db, objs, ser>>
verVars  == <<vdb, vers, cleaned, latest>>
userVars == <<users, tokens>>
reVars   == <<input, verdict>>

(***************************************************************************)
(* Bounds of the model.                                                    *)
(***************************************************************************)
MaxTime == 3
MaxReq == 2
NumRecs == 2
MaxVers == 2
MaxLinked == 1
MaxInst == 2
MaxSaves == 3
MaxLen == 3

(***************************************************************************)
(* Values.                                                                 *)
(***************************************************************************)
None == "None"            \* Python's None in a string-valued field
Missing == "<missing>"    \* key not present in a dict
NoPk == 0                 \* pk of an instance that was never saved
NoTime == 0               \* created_at / updated_at before the first save

Mnemonics == {"m1", "m2"}

AttrKeys == {"mnemonic", "name", "company", "website", "extras"}

\* attrs.get(key, default)
Get(attrs, key, default) ==
  IF attrs[key] = Missing THEN default ELSE attrs[key]

\* a dict holding the given keys of full, the others missing
Dict(full, keys) ==
  [k \in AttrKeys |-> IF k \in keys THEN full[k] ELSE Missing]

(***************************************************************************)
(* BaseModel / BaseResourceModel: fields and save().                       *)
(***************************************************************************)
\* Organization(name=..., mnemonic=...): a fresh, unsaved instance
Organization(name, mnemonic) ==
  [pk |-> NoPk, mnemonic |-> mnemonic, name |-> name,
   company |-> None, website |-> None, extras |-> None,
   is_active |-> TRUE, created_at |-> NoTime, updated_at |-> NoTime]

\* faulty variant: the storage layer does not enforce the constraint
UniqueViolationNotEnforced(o, table) == FALSE

\* the storage layer's answer to unique=True on mnemonic: another row holds
\* the value
UniqueViolation(o, table) ==
  \E k \in DOMAIN table : k # o.pk /\ table[k].mnemonic = o.mnemonic

NewPk(table) == Cardinality(DOMAIN table) + 1

\* the instance as save() leaves it at clock value t
Saved(o, table, t) ==
  [o EXCEPT !.pk = IF o.pk = NoPk THEN NewPk(table) ELSE o.pk,
            !.created_at = IF o.pk = NoPk THEN t ELSE o.created_at,
            !.updated_at = t]

\* the table after a successful save() of o at clock value t
Stored(o, table, t) ==
  LET s == Saved(o, table, t)
  IN  [k \in DOMAIN table \cup {s.pk} |-> IF k = s.pk THEN s ELSE table[k]]

(***************************************************************************)
(* OrganizationCreateSerializer.restore_object                             *)
(***************************************************************************)
NoErrors == [mnemonic |-> Missing]

AlreadyExists(mnemonic) ==
  <<"Organization with mnemonic %s already exists.", mnemonic>>

\* faulty variant: the existence check is there but does not stop the creation
CreateRestoreObjectNoReturn(attrs, table) ==
  LET mnemonic == Get(attrs, "mnemonic", None)
      organization == Organization(Get(attrs, "name", None), mnemonic)
  IN  [errors |-> IF \E k \in DOMAIN table : table[k].mnemonic = mnemonic
                  THEN [mnemonic |-> AlreadyExists(mnemonic)] ELSE NoErrors,
       object |-> {[organization EXCEPT
                      !.company = Get(attrs, "company", None),
                      !.website = Get(attrs, "website", None),
                      !.extras = Get(attrs, "extras", None)]}]

\* returns the serializer's _errors and the returned object ({} is None)
CreateRestoreObject(attrs, table) ==
  LET mnemonic == Get(attrs, "mnemonic", None)
      organization == Organization(Get(attrs, "name", None), mnemonic)
  IN  IF \E k \in DOMAIN table : table[k].mnemonic = mnemonic
      THEN [errors |-> [mnemonic |-> AlreadyExists(mnemonic)], object |-> {}]
      ELSE [errors |-> NoErrors,
            object |-> {[organization EXCEPT
                           !.company = Get(attrs, "company", None),
                           !.website = Get(attrs, "website", None),
                           !.extras = Get(attrs, "extras", None)]}]

\* validated attrs a create request can hand to restore_object
CreateAttrs ==
  { Dict([mnemonic |-> m, name |-> "a", company |-> "a", website |-> "a",
          extras |-> "a"], ks) :
      m \in Mnemonics, ks \in {{"mnemonic", "name"}, {"mnemonic", "name", "company"}} }

NoAttrs == [k \in AttrKeys |-> Missing]

NewSerializer == [pc |-> "new", attrs |-> NoAttrs, errors |-> NoErrors]

Requests == 1..MaxReq

Tick ==
  /\ now < MaxTime
  /\ now' = now + 1
  /\ UNCHANGED <<orgVars, last, verVars, userVars, reVars>>

\* a create request reaches restore_object
CreateRestore(r, attrs) ==
  /\ ser[r].pc = "new"
  /\ LET res == CreateRestoreObject(attrs, db)
     IN  /\ ser' = [ser EXCEPT ![r] = [pc |-> "restored", attrs |-> attrs,
                                       errors |-> res.errors]]
         /\ objs' = [s \in DOMAIN objs \cup {r : o \in res.object} |->
                       IF s = r THEN CHOOSE o \in res.object : TRUE ELSE objs[s]]
  /\ UNCHANGED <<now, db, last, verVars, userVars, reVars>>

\* the request later saves the organization restore_object returned
SaveCreated(r) ==
  /\ ser[r].pc = "restored"
  /\ r \in DOMAIN objs
  /\ IF UniqueViolation(objs[r], db)
     THEN /\ ser' = [ser EXCEPT ![r].pc = "IntegrityError"]
          /\ UNCHANGED <<db, objs>>
     ELSE /\ ser' = [ser EXCEPT ![r].pc = "saved"]
          /\ db' = Stored(objs[r], db, now)
          /\ objs' = [objs EXCEPT ![r] = Saved(objs[r], db, now)]
  /\ UNCHANGED <<now, last, verVars, userVars, reVars>>

IdleVer == /\ vdb = <<>> /\ vers = <<>> /\ cleaned = <<>> /\ latest = <<>>
IdleUser == /\ users = <<>> /\ tokens = <<>>
IdleRe == /\ input = <<>> /\ verdict = "none"
IdleOrg == /\ db = <<>> /\ objs = <<>> /\ ser = <<>>

InitCreate ==
  /\ now = 1
  /\ db = <<>>
  /\ objs = <<>>
  /\ ser = [r \in Requests |-> NewSerializer]
  /\ last = <<>>
  /\ IdleVer /\ IdleUser /\ IdleRe

NextCreate ==
  \/ \E r \in Requests, attrs \in CreateAttrs : CreateRestore(r, attrs)
  \/ \E r \in Requests : SaveCreated(r)
  \/ Tick

SpecCreate == InitCreate /\ [][NextCreate]_vars

(***************************************************************************)
(* BaseModel.soft_delete / BaseModel.undelete                              *)
(***************************************************************************)
\* faulty variant: the flag is flipped in memory and never persisted
soft_delete_unsaved(o) ==
  IF o.is_active
  THEN [obj |-> [o EXCEPT !.is_active = FALSE], save |-> FALSE]
  ELSE [obj |-> o, save |-> FALSE]

\* faulty variant: no test of the current state before writing
soft_delete_unguarded(o) ==
  [obj |-> [o EXCEPT !.is_active = FALSE], save |-> TRUE]

\* the instance as the method leaves it, and whether it called self.save()
soft_delete(o) ==
  IF o.is_active
  THEN [obj |-> [o EXCEPT !.is_active = FALSE], save |-> TRUE]
  ELSE [obj |-> o, save |-> FALSE]

undelete(o) ==
  IF ~o.is_active
  THEN [obj |-> [o EXCEPT !.is_active = TRUE], save |-> TRUE]
  ELSE [obj |-> o, save |-> FALSE]

NoCall == [op |-> "none", slot |-> 0, save |-> FALSE]

\* the trail keeps the previous call and the current one
Trail(t, call) == <<t[2], call>>

\* a model method ran on organization instance i with outcome res
Toggle(i, res, op) ==
  /\ last' = Trail(last, [op |-> op, slot |-> i, save |-> res.save])
  /\ IF res.save /\ ~UniqueViolation(res.obj, db)
     THEN /\ db' = Stored(res.obj, db, now)
          /\ objs' = [objs EXCEPT ![i] = Saved(res.obj, db, now)]
     ELSE /\ db' = db
          /\ objs' = [objs EXCEPT ![i] = res.obj]
  /\ UNCHANGED <<now, ser, verVars, userVars, reVars>>

SoftDelete(i) == Toggle(i, soft_delete(objs[i]), "soft_delete")

Undelete(i) == Toggle(i, undelete(objs[i]), "undelete")

Recs == 1..NumRecs

MnemonicNames == <<"m1", "m2", "m3", "m4", "m5">>

\* the stored organizations a run starts from: created and saved at clock 1,
\* each one active or already soft-deleted
StoredOrgs(recs, fields) ==
  { t \in [recs -> [pk : recs, mnemonic : {MnemonicNames[k] : k \in recs},
                    name : {"a"}, company : fields, website : fields,
                    extras : fields, is_active : BOOLEAN,
                    created_at : {1}, updated_at : {1}]] :
      \A k \in recs : t[k].pk = k /\ t[k].mnemonic = MnemonicNames[k] }

InitToggle ==
  /\ now = 1
  /\ db \in StoredOrgs(Recs, {None})
  /\ objs = db
  /\ ser = <<>>
  /\ last = <<NoCall, NoCall>>
  /\ IdleVer /\ IdleUser /\ IdleRe

NextToggle ==
  \/ \E i \in Recs : SoftDelete(i)
  \/ \E i \in Recs : Undelete(i)
  \/ Tick

SpecToggle == InitToggle /\ [][NextToggle]_vars

(***************************************************************************)
(* OrganizationDetailSerializer.restore_object                             *)
(***************************************************************************)
\* faulty variant: every field is taken from attrs, None when it is not supplied
DetailRestoreObjectOverwrite(attrs, instance) ==
  [instance EXCEPT !.name = Get(attrs, "name", None),
                   !.company = Get(attrs, "company", None),
                   !.website = Get(attrs, "website", None),
                   !.extras = Get(attrs, "extras", None)]

DetailRestoreObject(attrs, instance) ==
  [instance EXCEPT !.name = Get(attrs, "name", instance.name),
                   !.company = Get(attrs, "company", instance.company),
                   !.website = Get(attrs, "website", instance.website),
                   !.extras = Get(attrs, "extras", instance.extras)]

\* attrs of an update: any subset of the writable fields of the serializer
UpdateKeys == {"name", "company", "website", "extras"}

UpdateAttrs ==
  { Dict([mnemonic |-> Missing, name |-> "b", company |-> "b", website |-> "b",
          extras |-> "b"], ks) : ks \in SUBSET UpdateKeys }

\* an update request reaches restore_object with instance i
UpdateRestore(i, attrs) ==
  /\ objs' = [objs EXCEPT ![i] = DetailRestoreObject(attrs, objs[i])]
  /\ ser' = [ser EXCEPT ![i] = [pc |-> "restored", attrs |-> attrs,
                                errors |-> NoErrors]]
  /\ last' = Trail(last, [op |-> "update", slot |-> i, save |-> FALSE])
  /\ UNCHANGED <<now, db, verVars, userVars, reVars>>

\* restore_object works on the one instance the request loaded
Updated == {1}

InitUpdate ==
  /\ now = 1
  /\ db \in StoredOrgs(Updated, {None, "a"})
  /\ objs = db
  /\ ser = [i \in Updated |-> NewSerializer]
  /\ last = <<NoCall, NoCall>>
  /\ IdleVer /\ IdleUser /\ IdleRe

NextUpdate == \E i \in Updated, attrs \in UpdateAttrs : UpdateRestore(i, attrs)

SpecUpdate == InitUpdate /\ [][NextUpdate]_vars

(***************************************************************************)
(* ResourceVersionModel                                                    *)
(***************************************************************************)
NoRef == 0      \* a foreign key attribute holding None

Resources == {"r1", "r2"}

\* a fresh, unsaved version of the resource with the given id
Version(versioned_object_id) ==
  [pk |-> NoPk, versioned_object_id |-> versioned_object_id,
   is_active |-> TRUE, created_at |-> NoTime, updated_at |-> NoTime,
   previous_version |-> NoRef, previous_version_id |-> NoPk,
   parent_version |-> NoRef, parent_version_id |-> NoPk]

\* what save() writes of a version: its columns, not the cached instances
\* behind the two foreign keys
Columns(v) == [v EXCEPT !.previous_version = NoRef, !.parent_version = NoRef]

StoredVersion(v, table, t) ==
  LET s == Saved(v, table, t)
  IN  [k \in DOMAIN table \cup {s.pk} |-> IF k = s.pk THEN Columns(s) ELSE table[k]]

\* faulty variant: the is_active filter is missing from the query
LatestVersionsOfAnyState(id, table) ==
  LET versions == {k \in DOMAIN table : table[k].versioned_object_id = id}
  IN  {k \in versions : \A j \in versions : table[j].created_at <= table[k].created_at}

\* get_latest_version_of: the rows versions[0] can be ({}: it returns None).
\* order_by('-created_at') leaves the order of rows with equal created_at
\* to the storage layer, so each of them can come first.
LatestVersionsOf(id, table) ==
  LET versions == {k \in DOMAIN table :
                     table[k].versioned_object_id = id /\ table[k].is_active}
  IN  {k \in versions : \A j \in versions : table[j].created_at <= table[k].created_at}

NoLatest == [of |-> "none", returned |-> {}]

\* a new version of resource id is cut and saved
CreateVersion(id) ==
  /\ Cardinality(DOMAIN vdb) < MaxVers
  /\ LET s == NewPk(vdb)
     IN  /\ vdb' = StoredVersion(Version(id), vdb, now)
         /\ vers' = [k \in DOMAIN vers \cup {s} |->
                       IF k = s THEN Saved(Version(id), vdb, now) ELSE vers[k]]
  /\ UNCHANGED <<now, orgVars, last, cleaned, latest, userVars, reVars>>

\* a model method ran on version instance i with outcome res
ToggleVersion(i, res) ==
  /\ IF res.save
     THEN /\ vdb' = StoredVersion(res.obj, vdb, now)
          /\ vers' = [vers EXCEPT ![i] = Saved(res.obj, vdb, now)]
     ELSE /\ vdb' = vdb
          /\ vers' = [vers EXCEPT ![i] = res.obj]
  /\ UNCHANGED <<now, orgVars, last, cleaned, latest, userVars, reVars>>

SoftDeleteVersion(i) == ToggleVersion(i, soft_delete(vers[i]))

UndeleteVersion(i) == ToggleVersion(i, undelete(vers[i]))

GetLatestVersionOf(id) ==
  /\ LET first == LatestVersionsOf(id, vdb)
     IN  \/ /\ first = {}
            /\ latest' = [of |-> id, returned |-> {}]
         \/ \E k \in first : latest' = [of |-> id, returned |-> {k}]
  /\ UNCHANGED <<now, orgVars, last, vdb, vers, cleaned, userVars, reVars>>

InitLatest ==
  /\ now = 1
  /\ vdb = <<>> /\ vers = <<>> /\ cleaned = <<>> /\ latest = NoLatest
  /\ last = <<>>
  /\ IdleOrg /\ IdleUser /\ IdleRe

NextLatest ==
  \/ \E id \in Resources : CreateVersion(id)
  \/ \E i \in DOMAIN vers : SoftDeleteVersion(i)
  \/ \E i \in DOMAIN vers : UndeleteVersion(i)
  \/ \E id \in Resources : GetLatestVersionOf(id)
  \/ Tick

SpecLatest == InitLatest /\ [][NextLatest]_vars

(***************************************************************************)
(* Version lineage: parent_version, previous_version, clean()              *)
(***************************************************************************)
\* Model.__eq__ of two instances of one model class: the primary key values
\* are compared, and None equals None
ModelEq(a, b) == a.pk = b.pk

\* faulty variant: clean() accepts everything
CleanRaisesNever(i, instances) == FALSE

\* clean() of instance i raises ValidationError
CleanRaises(i, instances) ==
  LET self == instances[i]
  IN  /\ self.parent_version # NoRef
      /\ ModelEq(self, instances[self.parent_version])

NotCleaned == [slot |-> 0, raised |-> FALSE]

\* a version instance is constructed in memory
NewVersion(i, id) ==
  /\ i \notin DOMAIN vers
  /\ vers' = [k \in DOMAIN vers \cup {i} |-> IF k = i THEN Version(id) ELSE vers[k]]
  /\ UNCHANGED <<now, orgVars, last, vdb, cleaned, latest, userVars, reVars>>

\* the pk a foreign key column takes when instance p (or None) is assigned
PkOf(p, instances) == IF p = NoRef THEN NoPk ELSE instances[p].pk

\* i.parent_version = p (null=True: p may be None): the attribute holds
\* instance p, the column the pk that p has at this moment
SetParentVersion(i, p) ==
  /\ vers' = [vers EXCEPT ![i].parent_version = p,
                          ![i].parent_version_id = PkOf(p, vers)]
  /\ UNCHANGED <<now, orgVars, last, vdb, cleaned, latest, userVars, reVars>>

\* i.previous_version = p
SetPreviousVersion(i, p) ==
  /\ vers' = [vers EXCEPT ![i].previous_version = p,
                          ![i].previous_version_id = PkOf(p, vers)]
  /\ UNCHANGED <<now, orgVars, last, vdb, cleaned, latest, userVars, reVars>>

\* instance i is validated with clean() and, when it passes, saved
WriteVersion(i) ==
  /\ cleaned' = [slot |-> i, raised |-> CleanRaises(i, vers)]
  /\ IF CleanRaises(i, vers)
     THEN UNCHANGED <<vdb, vers>>
     ELSE /\ vdb' = StoredVersion(vers[i], vdb, now)
          /\ vers' = [vers EXCEPT ![i] = Saved(vers[i], vdb, now)]
  /\ UNCHANGED <<now, orgVars, last, latest, userVars, reVars>>

\* In the lineage runs every write is one that clean() lets through: a
\* WriteVersion, or a soft_delete() (which saves without calling clean())
\* of an instance that clean() accepts.
InitLineage ==
  /\ now = 1
  /\ vdb = <<>> /\ vers = <<>> /\ cleaned = NotCleaned /\ latest = NoLatest
  /\ last = <<>>
  /\ IdleOrg /\ IdleUser /\ IdleRe

NextLineage ==
  \/ \E i \in 1..MaxLinked, id \in Resources : NewVersion(i, id)
  \/ \E i \in DOMAIN vers, p \in DOMAIN vers \cup {NoRef} : SetParentVersion(i, p)
  \/ \E i \in DOMAIN vers, p \in DOMAIN vers \cup {NoRef} : SetPreviousVersion(i, p)
  \/ \E i \in DOMAIN vers : WriteVersion(i)
  \/ \E i \in DOMAIN vers : ~CleanRaises(i, vers) /\ SoftDeleteVersion(i)

SpecLineage == InitLineage /\ [][NextLineage]_vars

\* clean() reads parent_version alone
NextClean ==
  \/ \E i \in 1..MaxInst, id \in Resources : NewVersion(i, id)
  \/ \E i \in DOMAIN vers, p \in DOMAIN vers \cup {NoRef} : SetParentVersion(i, p)
  \/ \E i \in DOMAIN vers : WriteVersion(i)

SpecClean == InitLineage /\ [][NextClean]_vars

(***************************************************************************)
(* create_auth_token: the post_save receiver for User                      *)
(***************************************************************************)
\* faulty variant: the handler does not look at created
create_auth_token_always(toks, instance, created) ==
  Append(toks, [user |-> instance])

\* the Token table after the handler ran
create_auth_token(toks, instance, created) ==
  IF created THEN Append(toks, [user |-> instance]) ELSE toks

UserNames == {"u1", "u2", "u3"}

\* User.save(): an insert the first time, an update afterwards; post_save is
\* sent from inside save() with created telling which
SaveUser(u) ==
  /\ users[u] < MaxSaves
  /\ users' = [users EXCEPT ![u] = users[u] + 1]
  /\ tokens' = create_auth_token(tokens, u, users[u] = 0)
  /\ UNCHANGED <<now, orgVars, last, verVars, reVars>>

InitUser ==
  /\ now = 1
  /\ users = [u \in UserNames |-> 0]
  /\ tokens = <<>>
  /\ last = <<>>
  /\ IdleOrg /\ IdleVer /\ IdleRe

NextUser == \E u \in UserNames : SaveUser(u)

SpecUser == InitUser /\ [][NextUser]_vars

(***************************************************************************)
(* NAMESPACE_REGEX and RegexValidator                                      *)
(***************************************************************************)
Lower == {"a", "b", "c", "d", "e", "f", "g", "h", "i", "j", "k", "l", "m",
          "n", "o", "p", "q", "r", "s", "t", "u", "v", "w", "x", "y", "z"}
Upper == {"A", "B", "C", "D", "E", "F", "G", "H", "I", "J", "K", "L", "M",
          "N", "O", "P", "Q", "R", "S", "T", "U", "V", "W", "X", "Y", "Z"}
Digit == {"0", "1", "2", "3", "4", "5", "6", "7", "8", "9"}

\* the character class [a-zA-Z0-9\-\.]
NamespaceChar(c) == c \in Lower \cup Upper \cup Digit \cup {"-", "."}

\* NAMESPACE_REGEX.search(s) finds a match: '^' holds at the start of s, the
\* class matches n >= 1 characters, and '$' holds at the end of s or just
\* before a newline that is the last character of s
NamespaceRegexSearch(s) ==
  \E n \in 1..Len(s) :
    /\ \A i \in 1..n : NamespaceChar(s[i])
    /\ \/ n = Len(s)
       \/ n = Len(s) - 1 /\ s[Len(s)] = "\n"

\* RegexValidator.__call__: ValidationError unless the search matches
RegexValidator(s) == IF NamespaceRegexSearch(s) THEN "valid" ELSE "invalid"

\* characters a mnemonic is tried with: of the class and outside it
Alphabet == {"a", "Z", "7", "-", ".", " ", "\n", "_"}

Strings == UNION {[1..n -> Alphabet] : n \in 0..MaxLen}

Validate ==
  /\ verdict = "none"
  /\ verdict' = RegexValidator(input)
  /\ UNCHANGED <<now, orgVars, last, verVars, userVars, input>>

InitRegex ==
  /\ now = 1
  /\ input \in Strings
  /\ verdict = "none"
  /\ last = <<>>
  /\ IdleOrg /\ IdleVer /\ IdleUser

NextRegex == Validate

SpecRegex == InitRegex /\ [][NextRegex]_vars

(***************************************************************************)
(* C1 .. C2: organization creation                                         *)
(***************************************************************************)
MnemonicExists(m, table) == \E k \in DOMAIN table : table[k].mnemonic = m

\* C1: whenever restore_object runs for a create request, then if an
\* Organization with the requested mnemonic is stored it records an error
\* under 'mnemonic', returns None and leaves the table as it is; otherwise it
\* returns a new organization with the supplied mnemonic and name and
\* records no error.
C1_CreateRestoreObject ==
  [][\A r \in Requests :
       (ser[r].pc = "new" /\ ser'[r].pc = "restored") =>
         LET a == ser'[r].attrs
         IN  /\ db' = db
             /\ IF MnemonicExists(a["mnemonic"], db)
                THEN /\ ser'[r].errors["mnemonic"] # Missing
                     /\ r \notin DOMAIN objs'
                ELSE /\ ser'[r].errors = NoErrors
                     /\ r \in DOMAIN objs'
                     /\ objs'[r].mnemonic = a["mnemonic"]
                     /\ objs'[r].name = a["name"]]_vars

\* a create request was refused with the field error while the mnemonic's
\* one row is stored, and another request got its organization
C1_Witness ==
  \E r, q \in Requests :
    /\ ser[r].pc = "restored" /\ ser[r].errors["mnemonic"] # Missing
    /\ r \notin DOMAIN objs
    /\ Cardinality({k \in DOMAIN db : db[k].mnemonic = ser[r].attrs["mnemonic"]}) = 1
    /\ q \in DOMAIN objs /\ ser[q].errors = NoErrors

\* C2: no two stored organizations have the same mnemonic, whatever the
\* interleaving of existence checks and saves.
C2_MnemonicUnique ==
  \A j, k \in DOMAIN db : j # k => db[j].mnemonic # db[k].mnemonic

\* two requests passed the existence check for one mnemonic; the first save
\* stored the row and the second was rejected by the storage layer
C2_Witness ==
  \E r, q \in Requests :
    /\ r # q
    /\ ser[r].pc = "saved" /\ ser[q].pc = "IntegrityError"
    /\ ser[q].errors = NoErrors
    /\ objs[r].mnemonic = objs[q].mnemonic

(***************************************************************************)
(* C3 .. C4: soft delete                                                   *)
(***************************************************************************)
Called(call, op, i) == call.op = op /\ call.slot = i

Row(i) == db[objs[i].pk]

Present(i) == objs[i].pk \in DOMAIN db

\* C3: after soft_delete() the record is still in the table, with
\* is_active false in the row and in the instance, whatever it was before;
\* after soft_delete() followed by undelete() it is in the table with
\* is_active true.
C3_SoftDeleteUndelete ==
  \A i \in DOMAIN objs :
    /\ Called(last[2], "soft_delete", i) =>
         Present(i) /\ ~Row(i).is_active /\ ~objs[i].is_active
    /\ (Called(last[1], "soft_delete", i) /\ Called(last[2], "undelete", i)) =>
         Present(i) /\ Row(i).is_active /\ objs[i].is_active

\* a record was soft-deleted and then undeleted, both calls writing
C3_Witness ==
  \E i \in DOMAIN objs :
    /\ last[1] = [op |-> "soft_delete", slot |-> i, save |-> TRUE]
    /\ last[2] = [op |-> "undelete", slot |-> i, save |-> TRUE]
    /\ Present(i) /\ Row(i).is_active

\* C4: soft_delete() of an inactive record and undelete() of an active one
\* call no save and change no instance and no row (so updated_at stays);
\* a second call in a row is such a call.
C4_RedundantToggleNoOp ==
  [][\A i \in DOMAIN objs :
       /\ (last' # last /\ Called(last'[2], "soft_delete", i) /\ ~objs[i].is_active)
            => (objs' = objs /\ db' = db /\ ~last'[2].save)
       /\ (last' # last /\ Called(last'[2], "undelete", i) /\ objs[i].is_active)
            => (objs' = objs /\ db' = db /\ ~last'[2].save)]_vars

\* soft_delete() ran twice in a row, the second call after the clock moved
\* on, and the row still carries the first call's updated_at
C4_Witness ==
  \E i \in DOMAIN objs :
    /\ last[1] = [op |-> "soft_delete", slot |-> i, save |-> TRUE]
    /\ last[2] = [op |-> "soft_delete", slot |-> i, save |-> FALSE]
    /\ Present(i) /\ Row(i).updated_at < now /\ Row(i).created_at < Row(i).updated_at

(***************************************************************************)
(* C7: organization update                                                 *)
(***************************************************************************)
\* C7: an update's restore_object replaces each of name, company, website
\* and extras that attrs supplies and keeps each one it does not supply; it
\* never changes mnemonic or is_active (nor any other field), and writes
\* no row.
C7_UpdateMergesSupplied ==
  [][\A i \in DOMAIN objs :
       (Called(last'[2], "update", i) /\ <<ser, objs, last>>' # <<ser, objs, last>>) =>
         LET a == ser'[i].attrs
         IN  /\ \A f \in UpdateKeys :
                  objs'[i][f] = IF a[f] # Missing THEN a[f] ELSE objs[i][f]
             /\ \A f \in (DOMAIN objs[i]) \ UpdateKeys : objs'[i][f] = objs[i][f]
             /\ db' = db]_vars

\* an update supplying only name changed the name and kept a company and a
\* website that were set
C7_Witness ==
  \E i \in DOMAIN objs :
    /\ Called(last[2], "update", i)
    /\ i \in DOMAIN ser
    /\ \A f \in AttrKeys : ser[i].attrs[f] # Missing <=> f = "name"
    /\ objs[i].name = "b" /\ Row(i).name = "a"
    /\ objs[i].company = "a" /\ objs[i].website = "a"

(***************************************************************************)
(* C6: latest version                                                      *)
(***************************************************************************)
ActiveVersionsOf(id) ==
  {k \in DOMAIN vdb : vdb[k].versioned_object_id = id /\ vdb[k].is_active}

\* C6: get_latest_version_of(resource) returns None exactly when the
\* resource has no active version; otherwise it returns an active version
\* of that resource whose created_at no other active version of the
\* resource exceeds.
C6_LatestVersion ==
  [][latest' # latest =>
       LET active == ActiveVersionsOf(latest'.of)
       IN  /\ latest'.returned = {} <=> active = {}
           /\ \A k \in latest'.returned :
                /\ k \in DOMAIN vdb
                /\ vdb[k].is_active
                /\ vdb[k].versioned_object_id = latest'.of
                /\ \A j \in active : vdb[j].created_at <= vdb[k].created_at]_vars

\* the call returned an older active version while the most recently
\* created version of the resource is inactive
C6_Witness ==
  \E k, j \in DOMAIN vdb :
    /\ latest.returned = {k}
    /\ vdb[k].is_active /\ ~vdb[j].is_active
    /\ vdb[j].versioned_object_id = latest.of
    /\ vdb[k].versioned_object_id = latest.of
    /\ vdb[j].created_at > vdb[k].created_at

(***************************************************************************)
(* C5, C10: clean() and the lineage graph                                  *)
(***************************************************************************)
\* C5 (as claimed): clean() raises exactly when the instance's
\* parent_version is the instance itself.
C5_CleanFailsIffItself ==
  [][cleaned' # cleaned =>
       (cleaned'.raised <=> vers[cleaned'.slot].parent_version = cleaned'.slot)]_vars

\* the stored versions a stored version links to
Links(k) ==
  {vdb[k].parent_version_id, vdb[k].previous_version_id} \cap DOMAIN vdb

RECURSIVE ReachFrom(_, _)
ReachFrom(S, n) ==
  IF n = 0 THEN S ELSE ReachFrom(S \cup UNION {Links(k) : k \in S}, n - 1)

TokensOf(u) == {n \in DOMAIN tokens : tokens[n].user = u}

\* C8: every stored user has exactly one token, from the save that created
\* it, and a user never saved has none.
C8_OneTokenPerUser ==
  \A u \in UserNames :
    Cardinality(TokensOf(u)) = IF users[u] > 0 THEN 1 ELSE 0

\* a user was saved again after its creation and still has one token
C8_Witness ==
  \E u \in UserNames : users[u] >= 2 /\ Cardinality(TokensOf(u)) = 1

(***************************************************************************)
(* C9: mnemonic validation                                                 *)
(***************************************************************************)
\* C9 (as claimed): a mnemonic passes validation exactly when it is not
\* empty and all its characters are of [a-zA-Z0-9\-.].
C9_ValidIffNamespaceChars ==
  verdict # "none" =>
    (verdict = "valid" <=>
       (input # <<>> /\ \A i \in 1..Len(input) : NamespaceChar(input[i])))

====
